---- MODULE Spec2Model ----
(***************************************************************************)
(* Model of scripts/ai_code_review.py: the diff position mapper            *)
(* (get_diff_positions) and the review orchestrator (run_review).          *)
(*                                                                         *)
(* Two specifications share the module:                                    *)
(*   MapperSpec  the mapper loop, one patch line per step;                 *)
(*   Spec        run_review, one call (load, review_file,                  *)
(*               get_diff_positions, comment placement, write) per step.   *)
(***************************************************************************)
EXTENDS Integers, Sequences, FiniteSets, TLC

\* ------------------------------------------------------------------ bounds
MaxStart == 2
MaxPatchLen == 5

\* ------------------------------------------------------- patch lines (text)
\* A patch line is kept as the characters the code looks at: its first up to
\* three characters (startswith "@@", "+", "+++", "-", "---") and, for a hunk
\* header, what line.split(" ")[2] and int() make of it.
\*   hunk = "ok"     the third blank-separated field is "+<start>,<len>"
\*   hunk = "short"  the line has fewer than three fields   (IndexError)
\*   hunk = "nonint" the third field holds no integer       (ValueError)
\*   hunk = "na"     not a header, the field is never read
Line(text, hunk, start) == [text |-> text, hunk |-> hunk, start |-> start]

HunkLine(c) == Line(<<"@", "@", " ">>, "ok", c)
ShortHunk == Line(<<"@", "@">>, "short", 0)
NonIntHunk == Line(<<"@", "@", " ">>, "nonint", 0)
AddLine == Line(<<"+", "x">>, "na", 0)
AddPlusPlus == Line(<<"+", "+", "+">>, "na", 0)
RemLine == Line(<<"-", "x">>, "na", 0)
RemMinusMinus == Line(<<"-", "-", "-">>, "na", 0)
CtxLine == Line(<<" ", "x">>, "na", 0)

Starts == 1..MaxStart

Lines ==
    {HunkLine(c) : c \in Starts}
        \cup {ShortHunk, NonIntHunk, AddLine, AddPlusPlus, RemLine,
              RemMinusMinus, CtxLine}

Patches == UNION {[1..n -> Lines] : n \in 0..MaxPatchLen}

\* str.startswith
StartsWith(line, prefix) ==
    /\ Len(prefix) <= Len(line.text)
    /\ SubSeq(line.text, 1, Len(prefix)) = prefix

IsHunkHeader(line) == StartsWith(line, <<"@", "@">>)

IsAddition(line) ==
    StartsWith(line, <<"+">>) /\ ~StartsWith(line, <<"+", "+", "+">>)

IsRemoval(line) ==
    StartsWith(line, <<"-">>) /\ ~StartsWith(line, <<"-", "-", "-">>)

\* positions[key] = value on a dict kept as a function
DictSet(d, k, v) == [x \in DOMAIN d \cup {k} |-> IF x = k THEN v ELSE d[x]]

EmptyDict == [x \in {} |-> 0]

\* The state of the mapper loop before its first line.
MapInit ==
    [file_line |-> 0, diff_pos |-> 0, positions |-> EmptyDict, raised |-> FALSE]

\* One iteration of "for line in diff".
MapStepNoHeaderCount(st, line) ==
    IF IsHunkHeader(line)
    THEN IF line.hunk = "ok"
         THEN [st EXCEPT !.file_line = line.start - 1]
         ELSE [st EXCEPT !.raised = TRUE]
    ELSE LET pos == st.diff_pos + 1 IN
         IF IsAddition(line)
         THEN [st EXCEPT !.diff_pos = pos,
                         !.file_line = st.file_line + 1,
                         !.positions = DictSet(st.positions, st.file_line + 1, pos)]
         ELSE IF IsRemoval(line)
         THEN [st EXCEPT !.diff_pos = pos]
         ELSE [st EXCEPT !.diff_pos = pos, !.file_line = st.file_line + 1]

MapStep(st, line) ==
    LET pos == st.diff_pos + 1 IN
    IF IsHunkHeader(line)
    THEN IF line.hunk = "ok"
         THEN [st EXCEPT !.diff_pos = pos, !.file_line = line.start - 1]
         ELSE [st EXCEPT !.diff_pos = pos, !.raised = TRUE]
    ELSE IF IsAddition(line)
    THEN [st EXCEPT !.diff_pos = pos,
                    !.file_line = st.file_line + 1,
                    !.positions = DictSet(st.positions, st.file_line + 1, pos)]
    ELSE IF IsRemoval(line)
    THEN [st EXCEPT !.diff_pos = pos]
    ELSE [st EXCEPT !.diff_pos = pos, !.file_line = st.file_line + 1]

\* The whole loop: the lines in order, stopping at the first exception.
RECURSIVE MapLines(_, _, _)
MapLines(st, patch, i) ==
    IF st.raised \/ i > Len(patch)
    THEN st
    ELSE MapLines(MapStep(st, patch[i]), patch, i + 1)

MapPositions(patch) == MapLines(MapInit, patch, 1)

\* --------------------------------------------------- orchestrator inputs
MaxFiles == 2
MaxComments == 2
MaxLine == 2
MaxDiffLen == 2

\* The changed paths the hosting service may list.
FileNames == {"a.py", "b.js", "README.md"}

ALLOWED_EXTENSIONS == {".py", ".js", ".ts", ".go", ".java", ".rb", ".php"}

REVIEW_OUTPUT_FILE == "review_output.json"

\* pathlib.Path(f).suffix
Suffix(f) ==
    CASE f = "a.py" -> ".py"
      [] f = "b.js" -> ".js"
      [] OTHER -> ".md"

\* str(pathlib.Path(file_path).as_posix()).lstrip("./") removes leading "." and
\* "/" characters only: no path of FileNames begins with either.
NormalizePath(f) == f

IsInjective(s) == \A i, j \in DOMAIN s : i # j => s[i] # s[j]

FileLists ==
    {s \in UNION {[1..n -> FileNames] : n \in 0..MaxFiles} : IsInjective(s)}

\* The text of a comment names the line it is about, so that a body put on the
\* wrong position shows.
BodyFor(l) == <<"comment on line", l>>

LineNums == 1..MaxLine

\* An element of the list the model answered with:
\*   "ok"         an object with "line" and "comment"
\*   "noline"     an object without "line"
\*   "nocomment"  an object without "comment"
\*   "scalar"     not an object (a number, a string, null, a list)
Item(kind, line, comment) == [kind |-> kind, line |-> line, comment |-> comment]

Items ==
    {Item("ok", l, BodyFor(l)) : l \in LineNums}
        \cup {Item("noline", 0, BodyFor(0)), Item("nocomment", 1, <<>>),
              Item("scalar", 0, <<>>)}

ItemLists == UNION {[1..n -> Items] : n \in 0..MaxComments}

\* What review_file meets for one file:
\*   "unreadable"   read_text raises OSError or UnicodeError
\*   "apierror"     client.chat.completions.create raises
\*   "nonjson"      the answer is not JSON (prose, code fences, None)
\*   "scalar"       JSON that cannot be iterated (a number, null, true)
\*   "object"       a JSON object with keys: iterating yields strings
\*   "emptyobject"  the JSON object {} or the string "": iterating yields nothing
\*   "list"         a JSON list of items
Gen(kind, items) == [kind |-> kind, items |-> items]

GenOutcomes ==
    {Gen(k, <<>>) :
        k \in {"unreadable", "apierror", "nonjson", "scalar", "object", "emptyobject"}}
        \cup {Gen("list", its) : its \in ItemLists}

\* What "gh pr diff" gives for one file: its return code, whether its output is
\* JSON, and the entries {filename, patch} of that JSON (patch <<>> for a
\* missing, null or empty patch).
Prov(rc, json, entries) == [rc |-> rc, json |-> json, entries |-> entries]

\* The patches the provider answers with in a run: the line kinds that decide
\* what get_diff_positions returns to run_review (MapperSpec scans them all).
DiffLines == {HunkLine(1), ShortHunk, AddLine, RemLine, CtxLine}

DiffPatches == UNION {[1..n -> DiffLines] : n \in 0..MaxDiffLen}

ProvOutcomes(f) ==
    {Prov(1, FALSE, <<>>), Prov(0, FALSE, <<>>), Prov(0, TRUE, <<>>)}
        \cup {Prov(0, TRUE, <<[filename |-> f, patch |-> p]>>) : p \in DiffPatches}

\* ------------------------------------------------------ pure parts of the code
filter_source_files(files) ==
    SelectSeq(files, LAMBDA f : Suffix(f) \in ALLOWED_EXTENSIONS)

LogEntry(level, msg, path) == [level |-> level, msg |-> msg, path |-> path]

\* [(item["line"], item["comment"]) for item in data]: the kind of the first
\* item the comprehension cannot take, "ok" when it takes them all.
RECURSIVE FirstBadItem(_, _)
FirstBadItem(items, i) ==
    IF i > Len(items)
    THEN "ok"
    ELSE IF items[i].kind # "ok"
    THEN items[i].kind
    ELSE FirstBadItem(items, i + 1)

\* review_file: what it returns, what it logs and whether an exception leaves it.
ReviewFileResult(path, g) ==
    LET ret(cs) == [raised |-> FALSE, logs |-> <<>>, comments |-> cs]
        caught(msg) ==
            [raised |-> FALSE,
             logs |-> <<LogEntry("error", msg, path)>>,
             comments |-> <<>>]
        thrown == [raised |-> TRUE, logs |-> <<>>, comments |-> <<>>]
    IN  CASE g.kind = "unreadable" -> caught("Could not read")
          [] g.kind = "apierror" -> thrown
          [] g.kind \in {"nonjson", "scalar", "object"} -> caught("Failed to parse JSON")
          [] g.kind = "emptyobject" -> ret(<<>>)
          [] OTHER ->
                LET bad == FirstBadItem(g.items, 1) IN
                CASE bad = "ok" ->
                        ret([i \in 1..Len(g.items) |->
                                [line |-> g.items[i].line, body |-> g.items[i].comment]])
                  [] bad = "scalar" -> caught("Failed to parse JSON")
                  [] OTHER -> thrown

\* for f in files: if f["filename"] == file_path: patch = f.get("patch"); break
RECURSIVE FindPatch(_, _, _)
FindPatch(entries, file_path, i) ==
    IF i > Len(entries)
    THEN <<>>
    ELSE IF entries[i].filename = file_path
    THEN entries[i].patch
    ELSE FindPatch(entries, file_path, i + 1)

\* get_diff_positions: the map it returns, what it logs and whether an
\* exception leaves it.
DiffPositionsIgnoreRc(path, out) ==
    LET file_path == NormalizePath(path)
        ret(logs, m) == [raised |-> FALSE, logs |-> logs, map |-> m]
        thrown == [raised |-> TRUE, logs |-> <<>>, map |-> EmptyDict]
    IN  IF ~out.json
        THEN thrown
        ELSE LET p == FindPatch(out.entries, file_path, 1) IN
             IF p = <<>>
             THEN ret(<<LogEntry("warning", "No patch found", file_path)>>, EmptyDict)
             ELSE LET st == MapPositions(p) IN
                  IF st.raised THEN thrown ELSE ret(<<>>, st.positions)

DiffPositions(path, out) ==
    LET file_path == NormalizePath(path)
        ret(logs, m) == [raised |-> FALSE, logs |-> logs, map |-> m]
        thrown == [raised |-> TRUE, logs |-> <<>>, map |-> EmptyDict]
    IN  IF out.rc # 0
        THEN ret(<<LogEntry("error", "Error calling gh api", file_path)>>, EmptyDict)
        ELSE IF ~out.json
        THEN thrown
        ELSE LET p == FindPatch(out.entries, file_path, 1) IN
             IF p = <<>>
             THEN ret(<<LogEntry("warning", "No patch found", file_path)>>, EmptyDict)
             ELSE LET st == MapPositions(p) IN
                  IF st.raised THEN thrown ELSE ret(<<>>, st.positions)

\* for (line_num, body) in file_comments: if line_num in diff_map: append
RECURSIVE PlaceLineAsPosition(_, _, _, _, _)
PlaceLineAsPosition(acc, path, comments, map, i) ==
    IF i > Len(comments)
    THEN acc
    ELSE PlaceLineAsPosition(
            IF comments[i].line \in DOMAIN map
            THEN Append(acc, [path |-> path,
                              position |-> comments[i].line,
                              body |-> comments[i].body])
            ELSE acc,
            path, comments, map, i + 1)

RECURSIVE PlaceComments(_, _, _, _, _)
PlaceComments(acc, path, comments, map, i) ==
    IF i > Len(comments)
    THEN acc
    ELSE PlaceComments(
            IF comments[i].line \in DOMAIN map
            THEN Append(acc, [path |-> path,
                              position |-> map[comments[i].line],
                              body |-> comments[i].body])
            ELSE acc,
            path, comments, map, i + 1)

ReviewJson(comments) ==
    [body |-> "AI Code Review", event |-> "COMMENT", comments |-> comments]

\* ---------------------------------------------------------------- state
VARIABLES
    patch,          \* mapper: diff = patch.splitlines()
    idx,            \* mapper: number of lines the loop has consumed
    mst,            \* mapper: file_line, diff_pos, positions, raised
    mpc,            \* mapper: "scan" | "raised" | "returned"
    writer,         \* mapper: for each key, the patch line that wrote its entry
    first,          \* mapper: for each key, the first patch line that recorded it
    pc,             \* run_review: "start" | "loop" | "diff" | "place" | "done" | "aborted"
    source_files,   \* run_review: source_files
    cur,            \* run_review: index in source_files of the file of this iteration
    file_comments,  \* run_review: file_comments
    diff_map,       \* run_review: diff_map
    all_comments,   \* run_review: all_comments
    log,            \* every logging call made so far, in order
    writes,         \* number of times REVIEW_OUTPUT_FILE was opened for writing
    written,        \* the payloads json.dump wrote
    cause,          \* the function an uncaught exception left, "" when none
    gen,            \* the shape of the answer review_file got for this file
    prov,           \* the shape of what "gh pr diff" gave for this file
    failed,         \* files whose "gh pr diff" call returned a failure status
    expected,       \* the comments the contract asks for, file by file
    rawCount,       \* raw comments review_file returned so far
    dropCount       \* raw comments whose line was no key of their file's map

mvars == <<patch, idx, mst, mpc, writer, first>>

ovars ==
    <<pc, source_files, cur, file_comments, diff_map, all_comments, log, writes,
      written, cause, gen, prov, failed, expected, rawCount, dropCount>>

vars == <<mvars, ovars>>

\* The half of the state a specification does not use.
MapperIdle ==
    /\ patch = <<>>
    /\ idx = 0
    /\ mst = MapInit
    /\ mpc = "idle"
    /\ writer = EmptyDict
    /\ first = EmptyDict

OrchIdle ==
    /\ pc = "idle"
    /\ source_files = <<>>
    /\ cur = 1
    /\ file_comments = <<>>
    /\ diff_map = EmptyDict
    /\ all_comments = <<>>
    /\ log = <<>>
    /\ writes = 0
    /\ written = <<>>
    /\ cause = ""
    /\ gen = "none"
    /\ prov = "none"
    /\ failed = {}
    /\ expected = <<>>
    /\ rawCount = 0
    /\ dropCount = 0

\* ------------------------------------------------------------ MapperSpec
MapperInit ==
    /\ OrchIdle
    /\ patch \in Patches
    /\ idx = 0
    /\ mst = MapInit
    /\ mpc = "scan"
    /\ writer = EmptyDict
    /\ first = EmptyDict

\* The line the loop reads next.
NextLine == patch[idx + 1]

Scanning == mpc = "scan" /\ idx < Len(patch)

Consume ==
    /\ idx' = idx + 1
    /\ mst' = MapStep(mst, NextLine)
    /\ UNCHANGED <<patch, ovars>>

ScanHunkHeader ==
    /\ Scanning
    /\ IsHunkHeader(NextLine)
    /\ NextLine.hunk = "ok"
    /\ Consume
    /\ UNCHANGED <<mpc, writer, first>>

ScanMalformedHeader ==
    /\ Scanning
    /\ IsHunkHeader(NextLine)
    /\ NextLine.hunk # "ok"
    /\ Consume
    /\ mpc' = "raised"
    /\ UNCHANGED <<writer, first>>

ScanAddition ==
    /\ Scanning
    /\ ~IsHunkHeader(NextLine)
    /\ IsAddition(NextLine)
    /\ Consume
    /\ writer' = DictSet(writer, mst'.file_line, idx + 1)
    /\ first' = IF mst'.file_line \in DOMAIN first
                THEN first
                ELSE DictSet(first, mst'.file_line, idx + 1)
    /\ UNCHANGED mpc

ScanRemoval ==
    /\ Scanning
    /\ ~IsHunkHeader(NextLine)
    /\ ~IsAddition(NextLine)
    /\ IsRemoval(NextLine)
    /\ Consume
    /\ UNCHANGED <<mpc, writer, first>>

ScanOther ==
    /\ Scanning
    /\ ~IsHunkHeader(NextLine)
    /\ ~IsAddition(NextLine)
    /\ ~IsRemoval(NextLine)
    /\ Consume
    /\ UNCHANGED <<mpc, writer, first>>

ReturnPositions ==
    /\ mpc = "scan"
    /\ idx = Len(patch)
    /\ mpc' = "returned"
    /\ UNCHANGED <<patch, idx, mst, writer, first, ovars>>

MapperNext ==
    \/ ScanHunkHeader
    \/ ScanMalformedHeader
    \/ ScanAddition
    \/ ScanRemoval
    \/ ScanOther
    \/ ReturnPositions

MapperSpec == MapperInit /\ [][MapperNext]_vars

\* ------------------------------------------------------------------ Spec
\* The comments the contract asks of one file: one entry per raw comment whose
\* line is a key of the file's map, in the order the generator gave them.
ExpectedFor(path, comments, map) ==
    LET kept == SelectSeq(comments, LAMBDA c : c.line \in DOMAIN map) IN
    [i \in 1..Len(kept) |->
        [path |-> path, position |-> map[kept[i].line], body |-> kept[i].body]]

Dropped(comments, map) ==
    Cardinality({i \in 1..Len(comments) : comments[i].line \notin DOMAIN map})

CurFile == source_files[cur]

\* The shape of a generator answer against the expected one, a list of objects
\* each carrying "line" and "comment": read off the answer, not off the code.
GenShape(g) ==
    CASE g.kind \in {"unreadable", "apierror"} -> "noanswer"
      [] g.kind \in {"nonjson", "scalar", "object", "emptyobject"} -> "deviating"
      [] OTHER ->
            IF \E i \in 1..Len(g.items) : g.items[i].kind # "ok"
            THEN "deviating"
            ELSE "conforming"

\* A line that starts a hunk and lacks the "+start" token or an integer start.
IsMalformedHeader(line) == line.text[1] = "@" /\ line.text[2] = "@" /\ line.hunk # "ok"

\* The shape of what the provider gave for the file `path`.
ProvShape(path, out) ==
    IF out.rc # 0
    THEN "failed"
    ELSE IF ~out.json
    THEN "notjson"
    ELSE IF \E i \in 1..Len(out.entries) :
                /\ out.entries[i].filename = path
                /\ \E j \in 1..Len(out.entries[i].patch) :
                        IsMalformedHeader(out.entries[i].patch[j])
    THEN "malformed"
    ELSE "wellformed"

Init ==
    /\ MapperIdle
    /\ pc = "start"
    /\ source_files = <<>>
    /\ cur = 1
    /\ file_comments = <<>>
    /\ diff_map = EmptyDict
    /\ all_comments = <<>>
    /\ log = <<>>
    /\ writes = 0
    /\ written = <<>>
    /\ cause = ""
    /\ gen = "none"
    /\ prov = "none"
    /\ failed = {}
    /\ expected = <<>>
    /\ rawCount = 0
    /\ dropCount = 0

\* changed_files = load_changed_files(); source_files = filter_source_files(...)
LoadChangedFiles ==
    /\ pc = "start"
    /\ \/ /\ pc' = "aborted"
          /\ cause' = "load_changed_files"
          /\ UNCHANGED source_files
       \/ /\ \E files \in FileLists : source_files' = filter_source_files(files)
          /\ pc' = "loop"
          /\ UNCHANGED cause
    /\ UNCHANGED <<cur, file_comments, diff_map, all_comments, log, writes, written,
                   gen, prov, failed, expected, rawCount, dropCount, mvars>>

\* logging.info(...); file_comments = review_file(f); if not file_comments: continue
ReviewFile ==
    /\ pc = "loop"
    /\ cur <= Len(source_files)
    /\ \E g \in GenOutcomes :
        LET r == ReviewFileResult(CurFile, g) IN
        /\ gen' = GenShape(g)
        /\ prov' = "none"
        /\ log' = log \o <<LogEntry("info", "Reviewing", CurFile)>> \o r.logs
        /\ IF r.raised
           THEN /\ pc' = "aborted"
                /\ cause' = "review_file"
                /\ UNCHANGED <<cur, file_comments, rawCount>>
           ELSE /\ file_comments' = r.comments
                /\ rawCount' = rawCount + Len(r.comments)
                /\ cur' = IF r.comments = <<>> THEN cur + 1 ELSE cur
                /\ pc' = IF r.comments = <<>> THEN "loop" ELSE "diff"
                /\ UNCHANGED cause
    /\ UNCHANGED <<source_files, diff_map, all_comments, writes, written, failed,
                   expected, dropCount, mvars>>

\* diff_map = get_diff_positions(f)
GetDiffPositions ==
    /\ pc = "diff"
    /\ \E out \in ProvOutcomes(CurFile) :
        LET r == DiffPositions(CurFile, out) IN
        /\ prov' = ProvShape(CurFile, out)
        /\ failed' = IF out.rc # 0 THEN failed \cup {CurFile} ELSE failed
        /\ log' = log \o r.logs
        /\ IF r.raised
           THEN /\ pc' = "aborted"
                /\ cause' = "get_diff_positions"
                /\ UNCHANGED diff_map
           ELSE /\ diff_map' = r.map
                /\ pc' = "place"
                /\ UNCHANGED cause
    /\ UNCHANGED <<source_files, cur, file_comments, all_comments, writes, written,
                   gen, expected, rawCount, dropCount, mvars>>

\* for (line_num, body) in file_comments: ...; then the next file
PlaceFileComments ==
    /\ pc = "place"
    /\ all_comments' = PlaceComments(all_comments, CurFile, file_comments, diff_map, 1)
    /\ expected' = expected \o ExpectedFor(CurFile, file_comments, diff_map)
    /\ dropCount' = dropCount + Dropped(file_comments, diff_map)
    /\ cur' = cur + 1
    /\ pc' = "loop"
    \* file_comments and diff_map are assigned anew before the next iteration
    \* reads them: their old values are dropped here.
    /\ file_comments' = <<>>
    /\ diff_map' = EmptyDict
    /\ UNCHANGED <<source_files, log, writes, written, cause, gen, prov, failed,
                   rawCount, mvars>>

\* review_json = {...}; open(REVIEW_OUTPUT_FILE, "w"); json.dump(...)
WritePayload ==
    /\ pc = "loop"
    /\ cur > Len(source_files)
    /\ writes' = writes + 1
    /\ \/ /\ written' = Append(written, ReviewJson(all_comments))
          /\ log' = Append(log, LogEntry("info", "Generated", REVIEW_OUTPUT_FILE))
          /\ pc' = "done"
          /\ UNCHANGED cause
       \/ /\ log' = Append(log, LogEntry("error", "Failed to write", REVIEW_OUTPUT_FILE))
          /\ pc' = "aborted"
          /\ cause' = "write"
          /\ UNCHANGED written
    /\ UNCHANGED <<source_files, cur, file_comments, diff_map, all_comments, gen, prov,
                   failed, expected, rawCount, dropCount, mvars>>

Next ==
    \/ LoadChangedFiles
    \/ ReviewFile
    \/ GetDiffPositions
    \/ PlaceFileComments
    \/ WritePayload

Spec == Init /\ [][Next]_vars

\* ------------------------------------------------------- claims, MapperSpec
\* A hunk-body line is an addition when it begins with "+" and a removal when it
\* begins with "-", whatever text follows the marker.
IsAddedText(line) == line.text[1] = "+"

IsRemovedText(line) == line.text[1] = "-"

StartsHunk(line) == line.text[1] = "@" /\ line.text[2] = "@"

\* One well-formed hunk header "@@ -a,b +c,d @@" followed by addition lines only.
IsSingleHunkOfAdditions(p) ==
    /\ Len(p) >= 1
    /\ StartsHunk(p[1])
    /\ p[1].hunk = "ok"
    /\ \A i \in 2..Len(p) : IsAddedText(p[i])

\* C1: for a patch of one hunk header "@@ -a,b +c,d @@" followed by n >= 0
\* addition lines and nothing else, the returned map has exactly the keys
\* c .. c+n-1, and key c+i maps to diff position i+2.
C1_SingleHunkAdditions ==
    (mpc = "returned" /\ IsSingleHunkOfAdditions(patch)) =>
        LET c == patch[1].start
            n == Len(patch) - 1
        IN  mst.positions = [k \in c..(c + n - 1) |-> k - c + 2]

\* C2: a patch without any line starting with "@@" yields an empty map.
C2_NoHunkHeaderEmptyMap ==
    (mpc = "returned" /\ \A i \in 1..Len(patch) : ~StartsHunk(patch[i])) =>
        mst.positions = EmptyDict

\* C3: scanning a removal line, a removed line whose text begins with "--"
\* included, leaves the file line counter and the map as they were.
C3_RemovalKeepsCounter ==
    [][(Scanning /\ IsRemovedText(NextLine)) =>
            (mst'.file_line = mst.file_line /\ mst'.positions = mst.positions)]_vars

\* C4, as stated: diff positions start at 1 and grow by one per patch line,
\* and of two distinct keys of the map the one that a patch line recorded
\* earlier has the strictly smaller position, overlapping hunks included
\* (stated for the patches that begin with a hunk header).
C4_PositionsFollowRecordingOrder ==
    (Len(patch) >= 1 /\ StartsHunk(patch[1])) =>
        /\ mst.diff_pos = idx
        /\ \A k1, k2 \in DOMAIN mst.positions :
            k1 # k2 =>
                /\ mst.positions[k1] # mst.positions[k2]
                /\ (first[k1] < first[k2] => mst.positions[k1] < mst.positions[k2])

\* C4, amended: diff positions start at 1 and grow by one per patch line, so
\* the entry a key holds is the ordinal of the patch line that wrote it last;
\* of two distinct keys the one whose entry was written from the earlier patch
\* line has the strictly smaller position, and no two keys share a position.
\* Hunks may overlap or come out of order.
C4_PositionsFollowPatchOrder ==
    /\ mst.diff_pos = idx
    /\ DOMAIN writer = DOMAIN mst.positions
    /\ \A k \in DOMAIN mst.positions :
        /\ mst.positions[k] \in 1..idx
        /\ mst.positions[k] = writer[k]
    /\ \A k1, k2 \in DOMAIN mst.positions :
        k1 # k2 =>
            /\ mst.positions[k1] # mst.positions[k2]
            /\ (writer[k1] < writer[k2] => mst.positions[k1] < mst.positions[k2])

\* A returned map of two keys where a later hunk starts below the lines already
\* recorded: one key was written twice and holds the later line's position.
C4_Witness ==
    /\ mpc = "returned"
    /\ Len(patch) >= 2
    /\ StartsHunk(patch[1])
    /\ \E i \in 2..Len(patch) : StartsHunk(patch[i])
    /\ \E k1, k2 \in DOMAIN mst.positions :
        /\ k1 # k2
        /\ first[k1] < first[k2]
        /\ writer[k1] > writer[k2]
        /\ mst.positions[k1] > mst.positions[k2]

\* ------------------------------------------------------------- claims, Spec
\* C5: when run_review ends without a fatal failure, the written payload's
\* comments are, file by file in processing order and comment by comment in the
\* generator's order, one {path, position, body} per raw comment whose line is a
\* key of its file's map, and none for the others; so there are no more of them
\* than raw comments.
C5_PayloadIsFilteredComments ==
    pc = "done" =>
        /\ written = <<ReviewJson(expected)>>
        /\ Len(written[1].comments) <= rawCount

\* A finished run with comments of two files, two of them of one file, and a
\* dropped comment.
C5_Witness ==
    /\ pc = "done"
    /\ dropCount >= 1
    /\ LET cs == written[1].comments IN
        /\ \E i, j \in 1..Len(cs) :
            i < j /\ cs[i].path = cs[j].path /\ cs[i].position # cs[j].position
        /\ \E i, j \in 1..Len(cs) : cs[i].path # cs[j].path

\* C6: a failed patch retrieval for a file gives that file an empty map, none
\* of its comments reach the payload, the run goes on, and the comments of the
\* other files are what their own answers and maps make them.
C6_ProviderFailureIsLocal ==
    /\ \A i \in 1..Len(all_comments) : all_comments[i].path \notin failed
    /\ ~(pc = "aborted" /\ cause = "get_diff_positions" /\ prov = "failed")
    /\ (pc = "place" /\ prov = "failed") => diff_map = EmptyDict
    /\ all_comments = expected

\* A finished run whose first file lost its comments to a failed retrieval and
\* whose second file has a comment in the payload.
C6_Witness ==
    /\ pc = "done"
    /\ Len(source_files) = 2
    /\ failed = {source_files[1]}
    /\ dropCount >= 1
    /\ Len(written[1].comments) >= 1

\* C7: a malformed hunk header in a file's patch does not abort the run.
C7_MalformedHeaderDoesNotAbort ==
    prov = "malformed" => ~(pc = "aborted" /\ cause = "get_diff_positions")

\* C8: for every generator answer that deviates from a list of objects each
\* with "line" and "comment", review_file logs the failure and returns no
\* comments, and run_review goes on with the next file (the log entry is looked
\* for when the run has ended, for its last file).
C8_DeviatingAnswerYieldsNoComments ==
    gen = "deviating" =>
        /\ ~(pc = "aborted" /\ cause = "review_file")
        /\ file_comments = <<>>
        /\ pc = "done" =>
            \E i \in 1..Len(log) :
                log[i] = LogEntry("error", "Failed to parse JSON", source_files[cur - 1])

\* C9: in every run that obtained the changed-file list the payload is written
\* exactly once, after every file was processed or skipped, with the fixed body
\* and event fields (stated for the runs in which the generator answered every
\* file it was asked about).
C9_PayloadWrittenExactlyOnce ==
    /\ writes <= 1
    /\ writes = 1 => cur > Len(source_files)
    /\ (/\ pc \in {"done", "aborted"}
        /\ cause # "load_changed_files"
        /\ ~(cause = "review_file" /\ gen = "noanswer")) => writes = 1
    /\ pc = "done" =>
        /\ Len(written) = 1
        /\ written[1].body = "AI Code Review"
        /\ written[1].event = "COMMENT"

\* C10: at the end of a run there is one drop log entry per raw comment that
\* was dropped because its line is no key of its file's map. Every warning
\* counts as a drop entry.
C10_EveryDropIsLogged ==
    pc = "done" =>
        Cardinality({i \in 1..Len(log) : log[i].level = "warning"}) = dropCount

====
